---- MODULE Spec2Model ----
(***************************************************************************)
(* Model of the Akvorado DDoS detector (src/ddos_detector.py).             *)
(*                                                                         *)
(* Spec        the detection engine: DDoSDetector.detect_attacks, one      *)
(*             step per statement group, cycle after cycle.  The source    *)
(*             columns of a provider row are drawn when the loop first     *)
(*             reads them (line 481); a row at or below dst_threshold is   *)
(*             never read beyond its bps.                                  *)
(* SpecNotify  the notifier: NotificationManager.send_alert against a      *)
(*             wall clock that advances between its statements.            *)
(* SpecRun     the main loop: DDoSDetector.run, with detect_attacks as one *)
(*             step that returns a list of events or raises, and           *)
(*             send_alert stepwise for each returned event.                *)
(* SpecLive    the main loop running on and on: the steps of SpecRun with  *)
(*             a clock that never stops, under the assumption that every   *)
(*             statement of the loop terminates and time passes.           *)
(* SpecEntropy calculate_normalized_entropy called on argument lists of    *)
(*             any lengths, zero weights included.                         *)
(*                                                                         *)
(* Units: bit-rates are counted in units of 0.5 Gbps, entropy in           *)
(* thousandths, time in units of half a cooldown.                          *)
(***************************************************************************)
EXTENDS Integers, Sequences, FiniteSets, TLC

VARIABLES
    enabled,              \* AbuseIPDBClient.enabled
    pc,                   \* position of detect_attacks
    total_external_bps,   \* detect_attacks local
    dst_stats,            \* detect_attacks local: dst_ip and bps of the rows
    di,                   \* index of `stat` in `for stat in dst_stats`
    stat,                 \* the row under evaluation, with its source columns
    si,                   \* index of `src_ip` in `for src_ip in stat['src_ips']`
    api_quota_reached,    \* detect_attacks local
    should_alert,         \* detect_attacks local (per destination)
    abuse_info,           \* detect_attacks local (per destination)
    attacks,              \* detect_attacks local / return value
    dst_queried,          \* history: get_dst_traffic_stats was called this cycle
    lookups,              \* history: check_ip calls of this cycle, in call order
    results,              \* history: what check_ip returned for the sources of `stat`
    evals,                \* history: one record per row the loop has finished
    hit_before,           \* history: an earlier cycle had a reported lookup
    failed,               \* history: the provider queries that failed this cycle
    discord_webhook,      \* config notifications.discord_webhook is set
    slack_webhook,        \* config notifications.slack_webhook is set
    last_notifications,   \* NotificationManager.last_notifications
    now,                  \* datetime.now()
    npc,                  \* position of send_alert
    attack_info,          \* send_alert argument
    posts,                \* history: transport calls of the latest send_alert
    call,                 \* history: what the gate of the latest send_alert saw
    returned,             \* history: what send_alert returned, by kind of call
    arg_ips,              \* calculate_normalized_entropy argument src_ips
    arg_bytes,            \* calculate_normalized_entropy argument src_bytes
    ret_entropy,          \* calculate_normalized_entropy return value
    epc,                  \* position of the calculate_normalized_entropy caller
    rpc,                  \* position of run
    ai,                   \* index of `attack` in `for attack in attacks`
    sent,                 \* history: the events send_alert was called with this cycle
    partial,              \* history: events a detect_attacks call held when it raised
    raised                \* history: the exception the latest cycle raised

dvars == <<enabled, pc, total_external_bps, dst_stats, di, stat, si,
           api_quota_reached, should_alert, abuse_info, attacks,
           dst_queried, lookups, results, evals, hit_before, failed>>

nvars == <<discord_webhook, slack_webhook, last_notifications, now, npc,
           attack_info, posts, call, returned>>

evars == <<arg_ips, arg_bytes, ret_entropy, epc>>

rvars == <<rpc, ai, sent, partial, raised>>

vars == <<dvars, nvars, evars, rvars>>

----------------------------------------------------------------------------
(* Bounds *)

MaxDst == 2        \* rows in one get_dst_traffic_stats result
MaxSrc == 2        \* flow records grouped under one destination
HeavyBytes == 9    \* byte count of the heavy flow record
MaxTime == 4       \* last clock value

(* Program constants *)

total_threshold == 2      \* total_external_bps_threshold, 1 Gbps
dst_threshold == 2        \* dst_bps_threshold, 1 Gbps
entropy_threshold == 800  \* entropy_threshold, 0.8
cooldown == 2             \* notifications.cooldown

----------------------------------------------------------------------------
(* Values *)

None == <<>>
Some(x) == <<x>>

Flows == {<<"a", 1>>, <<"b", 1>>, <<"a", HeavyBytes>>}
BpsValues == {dst_threshold - 1, dst_threshold, dst_threshold + 1}
TotalValues == {0, total_threshold, total_threshold + 1}

SeqsUpTo(S, n) == UNION {[1..k -> S] : k \in 0..n}

RECURSIVE Sum(_)
Sum(s) == IF s = <<>> THEN 0 ELSE Head(s) + Sum(Tail(s))

----------------------------------------------------------------------------
(* ClickHouseClient *)

DstName(i) == "t" \o ToString(i)

Targets == {DstName(i) : i \in 1..MaxDst}

\* One row of get_dst_traffic_stats: groupArray(SrcAddr), groupArray(Bytes)
\* over the same flow records, uniq(SrcAddr).
Row(dst, bps, flows) ==
    [dst_ip |-> dst,
     bps |-> bps,
     src_ips |-> [i \in 1..Len(flows) |-> flows[i][1]],
     src_bytes |-> [i \in 1..Len(flows) |-> flows[i][2]],
     unique_sources |-> Cardinality({flows[i][1] : i \in 1..Len(flows)})]

\* The flow records grouped under one destination, in groupArray order.
SrcFlows == SeqsUpTo(Flows, MaxSrc)

\* The list `stats` get_dst_traffic_stats builds from result_rows, dst_ip and
\* bps columns: GROUP BY DstAddr (one row per address, named in row order),
\* ORDER BY bps DESC, at most MaxDst rows.
get_dst_traffic_stats ==
    UNION {
        {[i \in 1..k |-> [dst_ip |-> DstName(i), bps |-> b[i]]] :
            b \in {x \in [1..k -> BpsValues] :
                      \A i \in 1..k : \A j \in 1..k : i < j => x[i] >= x[j]}}
        : k \in 0..MaxDst}

\* The bps get_total_external_traffic reads from result_rows.
get_total_external_traffic == TotalValues

\* Lines 117-139: the value returned, `ok` telling whether the try block
\* ran to its return; the except clause returns 0.0.
TotalReturned(ok, bps) == IF ok THEN bps ELSE 0

\* Variant: the except clause hands back the rows built before the exception.
DstReturnedPartial(ok, stats) == stats

\* Lines 150-188: the list returned, `ok` telling whether the try block ran
\* to `return stats`; the except clause returns [].
DstReturned(ok, stats) == IF ok THEN stats ELSE <<>>

\* The queries of one cycle that ended in the except clause.
Failures(total_ok, dst_ok) ==
    (IF total_ok THEN {} ELSE {"total"}) \cup (IF dst_ok THEN {} ELSE {"dst"})

----------------------------------------------------------------------------
(* AbuseIPDBClient *)

Result(ip, reports) ==
    [ip_address |-> ip, total_reports |-> reports, is_reported |-> reports > 0]

\* Outcomes of check_ip(ip): None when disabled, on a failed request and on
\* a response without data; otherwise the result built from the response.
check_ip(ip) ==
    IF ~enabled THEN {None}
    ELSE {None, Some(Result(ip, 0)), Some(Result(ip, 1))}

\* `abuse_result and abuse_result.get('is_reported')`
Reported(abuse_result) == abuse_result # None /\ abuse_result[1].is_reported

----------------------------------------------------------------------------
(* DDoSDetector.calculate_normalized_entropy *)

\* round(1000 * log2(k)) for k = 1..40
Log2Table ==
    <<0, 1000, 1585, 2000, 2322, 2585, 2807, 3000, 3170, 3322,
      3459, 3585, 3700, 3807, 3907, 4000, 4087, 4170, 4248, 4322,
      4392, 4459, 4524, 4585, 4644, 4700, 4755, 4807, 4858, 4907,
      4954, 5000, 5044, 5087, 5129, 5170, 5209, 5248, 5285, 5322>>

log2(k) == Log2Table[k]

\* total_bytes * sum over positive bytes_val of -p * log2(p), p = bytes_val / total_bytes
RECURSIVE EntropyTerms(_, _)
EntropyTerms(src_bytes, total_bytes) ==
    IF src_bytes = <<>> THEN 0
    ELSE LET bytes_val == Head(src_bytes) IN
         (IF bytes_val > 0
             THEN bytes_val * (log2(total_bytes) - log2(bytes_val))
             ELSE 0)
         + EntropyTerms(Tail(src_bytes), total_bytes)

\* Lines 428-444: the entropy of the weights divided by log2(len(src_ips)),
\* for a positive total.
NormalizedEntropy(src_ips, src_bytes, total_bytes) ==
    LET entropy == EntropyTerms(src_bytes, total_bytes) \div total_bytes
        n == Len(src_ips)
    IN  IF n <= 1 THEN 0
        ELSE LET max_entropy == log2(n) IN
             IF max_entropy > 0
                THEN (entropy * 1000) \div max_entropy
                ELSE 0

\* Variant: weights that sum to zero are taken as evenly spread.
calculate_normalized_entropy_even_on_zero(src_ips, src_bytes) ==
    IF src_ips = <<>> \/ src_bytes = <<>> THEN 0
    ELSE LET total_bytes == Sum(src_bytes) IN
         IF total_bytes = 0
            THEN (IF Len(src_ips) <= 1 THEN 0 ELSE 1000)
            ELSE NormalizedEntropy(src_ips, src_bytes, total_bytes)

\* Lines 410-444.
calculate_normalized_entropy(src_ips, src_bytes) ==
    IF src_ips = <<>> \/ src_bytes = <<>> THEN 0
    ELSE LET total_bytes == Sum(src_bytes) IN
         IF total_bytes = 0 THEN 0
         ELSE NormalizedEntropy(src_ips, src_bytes, total_bytes)

----------------------------------------------------------------------------
(* DDoSDetector.detect_attacks *)

\* Variant: the gate compares with `<`.
GateClosedStrict(total) == total < total_threshold

\* `if total_external_bps <= total_threshold: return []`
GateClosed(total) == total <= total_threshold

\* Variant: a row at the threshold is evaluated too.
AboveDstThresholdOrEqual(row) == row.bps >= dst_threshold

\* `if stat['bps'] > dst_threshold`
AboveDstThreshold(row) == row.bps > dst_threshold

\* Variant: any non-zero entropy counts as high.
HighEntropyAnyPositive(entropy) == entropy > 0

\* `entropy > entropy_threshold`
HighEntropy(entropy) == entropy > entropy_threshold

\* Variant: the quota flag is not consulted.
UseReputationIgnoringQuota(quota, en) == en

\* Variant: the enabled switch is not consulted.
UseReputationIgnoringEnabled(quota, en) == ~quota

\* `if not api_quota_reached and self.abuseipdb_client.enabled`
UseReputation(quota, en) == ~quota /\ en

\* Variant: any result with data counts as a hit.
IsHitAnyData(abuse_result) == abuse_result # None

\* Variant: a lookup without a result counts as a hit.
IsHitOrNoData(abuse_result) == abuse_result = None \/ Reported(abuse_result)

\* `if abuse_result and abuse_result.get('is_reported')`
IsHit(abuse_result) == Reported(abuse_result)

\* Variant: the fallback does not test should_alert.
EntropyFallbackAlsoOnHit(alerting, entropy) == entropy > entropy_threshold

\* Variant: the fallback does not test the entropy.
EntropyFallbackAnyEntropy(alerting, entropy) == ~alerting

\* Variant: once lookups were made, they alone decide.
EntropyFallbackOff(alerting, entropy) == FALSE

\* `if not should_alert and entropy > entropy_threshold` after the lookups
EntropyFallback(alerting, entropy) == ~alerting /\ HighEntropy(entropy)

\* Variant: each address is looked up once, at its first position.
SourceListDistinct(row) ==
    LET ips == row.src_ips
        first == {i \in DOMAIN ips : \A j \in 1..(i - 1) : ips[j] # ips[i]}
    IN  [k \in 1..Cardinality(first) |->
            ips[CHOOSE i \in first : Cardinality({j \in first : j <= i}) = k]]

\* Line 496: `for src_ip in stat['src_ips']`, the list as the row holds it
SourceList(row) == row.src_ips

\* Variant: the flag outlives the call, as an attribute of the detector would.
InitialQuotaKept(stale) == stale

\* `api_quota_reached = False` when the per-destination stage begins
InitialQuota(stale) == FALSE

\* Variant: the new event goes to the front of the list.
append_first(events, info) == <<info>> \o events

\* Line 543: attacks.append(attack_info)
append(events, info) == Append(events, info)

Entropy(row) == calculate_normalized_entropy(row.src_ips, row.src_bytes)

\* Variant: every event is labelled DDoS.
AttackTypeAlwaysDDoS(entropy) == "DDoS"

\* Lines 484-487: "DDoS" if entropy > entropy_threshold else "DoS"
AttackType(entropy) == IF HighEntropy(entropy) THEN "DDoS" ELSE "DoS"

AttackInfo(row, info, triggered) ==
    [dst_ip |-> row.dst_ip,
     bps |-> row.bps,
     entropy |-> Entropy(row),
     unique_sources |-> row.unique_sources,
     attack_type |-> AttackType(Entropy(row)),
     abuse_info |-> info,
     entropy_triggered |-> triggered]

\* What the loop has done with one row: its position and bps, for a row
\* above dst_threshold the entropy and the length of its source list, the
\* flag found on entry, whether the lookup branch was taken, and whether an
\* event was appended.
Eval(r, row, above, quota, checked, alerted) ==
    [row |-> r,
     dst_ip |-> dst_stats[r].dst_ip,
     bps |-> dst_stats[r].bps,
     above |-> above,
     entropy |-> IF above THEN Entropy(row) ELSE 0,
     n_src |-> IF above THEN Len(row.src_ips) ELSE 0,
     quota |-> quota,
     checked |-> checked,
     alerted |-> alerted]

\* stat, with the source columns of the row.
FullRow(r, flows) == Row(dst_stats[r].dst_ip, dst_stats[r].bps, flows)

\* Lines 455-466: the total is at or below the threshold, return [].
GlobalGateReturn ==
    /\ pc = "start"
    /\ \E ok \in BOOLEAN : \E bps \in get_total_external_traffic :
          LET total == TotalReturned(ok, bps) IN
          /\ GateClosed(total)
          /\ total_external_bps' = total
          /\ failed' = Failures(ok, TRUE)
    /\ attacks' = <<>>
    /\ pc' = "returned"
    /\ UNCHANGED <<enabled, dst_stats, di, stat, si, api_quota_reached,
                   should_alert, abuse_info, dst_queried, lookups, results,
                   evals, hit_before>>
    /\ UNCHANGED <<nvars, evars, rvars>>

\* Lines 455-476: the total exceeds the threshold, query the destinations.
QueryDstStats ==
    /\ pc = "start"
    /\ \E total_ok \in BOOLEAN : \E bps \in get_total_external_traffic :
          LET total == TotalReturned(total_ok, bps) IN
          /\ ~GateClosed(total)
          /\ total_external_bps' = total
          /\ \E dst_ok \in BOOLEAN : \E stats \in get_dst_traffic_stats :
                /\ dst_stats' = DstReturned(dst_ok, stats)
                /\ failed' = Failures(total_ok, dst_ok)
    /\ dst_queried' = TRUE
    /\ attacks' = <<>>
    /\ api_quota_reached' = InitialQuota(api_quota_reached)
    /\ di' = 1
    /\ pc' = "for_stat"
    /\ UNCHANGED <<enabled, stat, si, should_alert, abuse_info, lookups,
                   results, evals, hit_before>>
    /\ UNCHANGED <<nvars, evars, rvars>>

\* Lines 478-479: a row at or below dst_threshold is passed over.
SkipDst ==
    /\ pc = "for_stat"
    /\ di <= Len(dst_stats)
    /\ ~AboveDstThreshold(dst_stats[di])
    /\ di' = di + 1
    /\ evals' = Append(evals, Eval(di, None, FALSE, api_quota_reached, FALSE, FALSE))
    /\ UNCHANGED <<enabled, pc, total_external_bps, dst_stats, stat, si,
                   api_quota_reached, should_alert, abuse_info, attacks,
                   dst_queried, lookups, results, hit_before, failed>>
    /\ UNCHANGED <<nvars, evars, rvars>>

\* Lines 479-496: a row above dst_threshold, reputation lookups permitted.
BeginLookups ==
    /\ pc = "for_stat"
    /\ di <= Len(dst_stats)
    /\ AboveDstThreshold(dst_stats[di])
    /\ UseReputation(api_quota_reached, enabled)
    /\ \E flows \in SrcFlows : stat' = Some(FullRow(di, flows))
    /\ should_alert' = FALSE
    /\ abuse_info' = None
    /\ results' = <<>>
    /\ si' = 1
    /\ pc' = "check_ips"
    /\ UNCHANGED <<enabled, total_external_bps, dst_stats, di,
                   api_quota_reached, attacks, dst_queried, lookups, evals,
                   hit_before, failed>>
    /\ UNCHANGED <<nvars, evars, rvars>>

\* Lines 496-509: one iteration of `for src_ip in stat['src_ips']`.
CheckIp ==
    /\ pc = "check_ips"
    /\ si <= Len(SourceList(stat[1]))
    /\ LET src_ip == SourceList(stat[1])[si] IN
       \E abuse_result \in check_ip(src_ip) :
          /\ results' = Append(results, [pos |-> si, ip |-> src_ip,
                                         result |-> abuse_result])
          /\ lookups' = Append(lookups, [row |-> di, pos |-> si,
                                         hit |-> Reported(abuse_result)])
          /\ IF IsHit(abuse_result)
                THEN /\ should_alert' = TRUE
                     /\ abuse_info' = abuse_result
                     /\ api_quota_reached' = TRUE
                     /\ pc' = "after_ips"
                     /\ si' = si
                ELSE /\ si' = si + 1
                     /\ UNCHANGED <<should_alert, abuse_info,
                                    api_quota_reached, pc>>
    /\ UNCHANGED <<enabled, total_external_bps, dst_stats, di, stat, attacks,
                   dst_queried, evals, hit_before, failed>>
    /\ UNCHANGED <<nvars, evars, rvars>>

\* Lines 511-543: after the lookups (break or list exhausted), the entropy
\* fallback and the append.
FinishLookups ==
    /\ \/ pc = "after_ips"
       \/ pc = "check_ips" /\ si > Len(SourceList(stat[1]))
    /\ LET entropy_triggered == EntropyFallback(should_alert, Entropy(stat[1]))
           alerting == should_alert \/ entropy_triggered
       IN  /\ attacks' = IF alerting
                            THEN append(attacks,
                                        AttackInfo(stat[1], abuse_info, entropy_triggered))
                            ELSE attacks
           /\ evals' = Append(evals, Eval(di, stat[1], TRUE, FALSE, TRUE, alerting))
    /\ di' = di + 1
    /\ pc' = "for_stat"
    /\ UNCHANGED <<enabled, total_external_bps, dst_stats, stat, si,
                   api_quota_reached, should_alert, abuse_info, dst_queried,
                   lookups, results, hit_before, failed>>
    /\ UNCHANGED <<nvars, evars, rvars>>

\* Lines 479-493, 518-543: a row above dst_threshold with the checker
\* disabled or the quota flag set: entropy alone decides.
EntropyOnly ==
    /\ pc = "for_stat"
    /\ di <= Len(dst_stats)
    /\ AboveDstThreshold(dst_stats[di])
    /\ ~UseReputation(api_quota_reached, enabled)
    /\ \E flows \in SrcFlows :
          LET row == FullRow(di, flows)
              entropy_triggered == HighEntropy(Entropy(row))
              alerting == entropy_triggered
          IN  /\ stat' = Some(row)
              /\ should_alert' = alerting
              /\ attacks' = IF alerting
                               THEN append(attacks,
                                           AttackInfo(row, None, entropy_triggered))
                               ELSE attacks
              /\ evals' = Append(evals, Eval(di, row, TRUE, api_quota_reached,
                                             FALSE, alerting))
    /\ abuse_info' = None
    /\ results' = <<>>
    /\ di' = di + 1
    /\ UNCHANGED <<enabled, pc, total_external_bps, dst_stats, si,
                   api_quota_reached, dst_queried, lookups, hit_before, failed>>
    /\ UNCHANGED <<nvars, evars, rvars>>

\* Line 545: `return attacks` once every row has been visited.
ReturnAttacks ==
    /\ pc = "for_stat"
    /\ di > Len(dst_stats)
    /\ pc' = "returned"
    /\ UNCHANGED <<enabled, total_external_bps, dst_stats, di, stat, si,
                   api_quota_reached, should_alert, abuse_info, attacks,
                   dst_queried, lookups, results, evals, hit_before, failed>>
    /\ UNCHANGED <<nvars, evars, rvars>>

\* DDoSDetector.run, lines 554-556: the loop calls detect_attacks again.
\* The frame of the finished call is gone; the flag keeps its stale value
\* so that only line 476 can clear it.
NextCycle ==
    /\ pc = "returned"
    /\ pc' = "start"
    /\ hit_before' = (hit_before \/ \E i \in DOMAIN lookups : lookups[i].hit)
    /\ total_external_bps' = 0
    /\ dst_stats' = <<>>
    /\ di' = 1
    /\ stat' = None
    /\ si' = 1
    /\ should_alert' = FALSE
    /\ abuse_info' = None
    /\ attacks' = <<>>
    /\ dst_queried' = FALSE
    /\ lookups' = <<>>
    /\ results' = <<>>
    /\ evals' = <<>>
    /\ failed' = {}
    /\ UNCHANGED <<enabled, api_quota_reached>>
    /\ UNCHANGED <<nvars, evars, rvars>>

----------------------------------------------------------------------------
(* Specification of the detection engine *)

\* No send_alert call of either kind has returned yet.
NoReturn == [skipped |-> None, dispatched |-> None]

NotifierAtRest ==
    /\ discord_webhook = TRUE
    /\ slack_webhook = TRUE
    /\ last_notifications = << >>
    /\ now = 0
    /\ npc = "idle"
    /\ attack_info = None
    /\ posts = <<>>
    /\ call = None
    /\ returned = NoReturn

DetectorAtRest ==
    /\ pc = "start"
    /\ total_external_bps = 0
    /\ dst_stats = <<>>
    /\ di = 1
    /\ stat = None
    /\ si = 1
    /\ api_quota_reached = FALSE
    /\ should_alert = FALSE
    /\ abuse_info = None
    /\ attacks = <<>>
    /\ dst_queried = FALSE
    /\ lookups = <<>>
    /\ results = <<>>
    /\ evals = <<>>
    /\ hit_before = FALSE
    /\ failed = {}

\* No call of calculate_normalized_entropy from outside detect_attacks.
EntropyAtRest ==
    /\ arg_ips = <<>>
    /\ arg_bytes = <<>>
    /\ ret_entropy = None
    /\ epc = "idle"

\* run has not been entered.
RunAtRest ==
    /\ rpc = "idle"
    /\ ai = 1
    /\ sent = <<>>
    /\ partial = <<>>
    /\ raised = None

Init ==
    /\ enabled \in BOOLEAN
    /\ DetectorAtRest
    /\ NotifierAtRest
    /\ EntropyAtRest
    /\ RunAtRest

Next ==
    \/ GlobalGateReturn
    \/ QueryDstStats
    \/ SkipDst
    \/ BeginLookups
    \/ CheckIp
    \/ FinishLookups
    \/ EntropyOnly
    \/ ReturnAttacks
    \/ NextCycle

Spec == Init /\ [][Next]_vars

----------------------------------------------------------------------------
(* NotificationManager *)

\* Events handed to send_alert: for each target, a distributed attack
\* triggered by entropy, one with a reported source, and a concentrated
\* attack with a reported source.
AlertEvents ==
    LET spread == <<<<"a", 1>>, <<"b", 1>>>>
        narrow == <<<<"a", HeavyBytes>>, <<"b", 1>>>>
    IN  UNION {
          {AttackInfo(Row(t, dst_threshold + 1, spread), None, TRUE),
           AttackInfo(Row(t, dst_threshold + 1, spread), Some(Result("a", 1)), FALSE),
           AttackInfo(Row(t, dst_threshold + 1, narrow), Some(Result("a", 1)), FALSE)}
          : t \in Targets}

\* self.last_notifications.get(target)
LastTime(memo, target) ==
    IF target \in DOMAIN memo THEN Some(memo[target]) ELSE None

\* Variant: the elapsed time must exceed the cooldown.
should_notify_strict(memo, target, t) ==
    LET last_time == LastTime(memo, target) IN
    IF last_time = None THEN TRUE
    ELSE t - last_time[1] > cooldown

\* Lines 273-281: _should_notify, with datetime.now() = t.
should_notify(memo, target, t) ==
    LET last_time == LastTime(memo, target) IN
    IF last_time = None THEN TRUE
    ELSE t - last_time[1] >= cooldown

\* Variant: the memo is replaced by the entry of the target.
AfterAlertOnlyLatest(memo, target, t) == [x \in {target} |-> t]

\* Line 305: self.last_notifications[target] = datetime.now()
AfterAlert(memo, target, t) ==
    [x \in DOMAIN memo \cup {target} |-> IF x = target THEN t ELSE memo[x]]

\* Variant: a skipped call stamps the target as well.
AfterSkipStamped(memo, target, t) == AfterAlert(memo, target, t)

\* Variant: a suppressed call restarts the cooldown of its target.
AfterSkipRefreshed(memo, target, t) == [memo EXCEPT ![target] = t]

\* last_notifications after a call that returned at line 289.
AfterSkip(memo, target, t) == memo

\* Variant: a suppressed call returns a marker.
ReturnValueSkipped(passed) == IF passed THEN None ELSE Some("skipped")

\* Lines 289, 305: the value send_alert returns; the bare `return` of the
\* suppressed call and the end of the function both give Python's None.
ReturnValue(passed) == None

\* What one call found at the gate: the target, the clock value
\* _should_notify read, the whole memo before the call, and whether the
\* call went on to dispatch.
GateRecord(memo, target, t, passed) ==
    [target |-> target, at |-> t, memo |-> memo, passed |-> passed]

\* The clock advances; it can do so between any two statements.
Tick ==
    /\ now < MaxTime
    /\ now' = now + 1
    /\ UNCHANGED <<discord_webhook, slack_webhook, last_notifications, npc,
                   attack_info, posts, call, returned>>
    /\ UNCHANGED <<dvars, evars, rvars>>

\* Variant: the memo is stamped only when some transport call succeeded.
AfterDispatchOnSuccess(memo, target, t, attempts) ==
    IF \E i \in DOMAIN attempts : attempts[i].ok
       THEN AfterAlert(memo, target, t)
       ELSE memo

\* Variant: the memo is stamped with the time of the first transport call.
AfterDispatchAtFirstAttempt(memo, target, t, attempts) ==
    IF attempts = <<>>
       THEN AfterAlert(memo, target, t)
       ELSE AfterAlert(memo, target, attempts[1].at)

\* Lines 294-305: last_notifications once the channels have been gone
\* through; `attempts` are the transport calls made, none of which the
\* assignment of line 305 looks at.
AfterDispatch(memo, target, t, attempts) == AfterAlert(memo, target, t)

\* Lines 283-289: send_alert(info) returns because of the cooldown.
SendAlertSkipFor(info) ==
    /\ npc = "idle"
    /\ LET target == info.dst_ip IN
          /\ ~should_notify(last_notifications, target, now)
          /\ call' = Some(GateRecord(last_notifications, target, now, FALSE))
          /\ last_notifications' = AfterSkip(last_notifications, target, now)
    /\ posts' = <<>>
    /\ returned' = [returned EXCEPT !.skipped = Some(ReturnValue(FALSE))]
    /\ UNCHANGED <<discord_webhook, slack_webhook, now, npc, attack_info>>

\* Lines 283-292: send_alert(info) passes the cooldown gate and formats the
\* message.
SendAlertPassFor(info) ==
    /\ npc = "idle"
    /\ LET target == info.dst_ip IN
          /\ should_notify(last_notifications, target, now)
          /\ call' = Some(GateRecord(last_notifications, target, now, TRUE))
          /\ attack_info' = Some(info)
    /\ posts' = <<>>
    /\ npc' = "discord"
    /\ UNCHANGED <<discord_webhook, slack_webhook, last_notifications, now,
                   returned>>

\* send_alert called on its own, with any event.
SendAlertSkip ==
    /\ \E info \in AlertEvents : SendAlertSkipFor(info)
    /\ UNCHANGED <<dvars, evars, rvars>>

SendAlertPass ==
    /\ \E info \in AlertEvents : SendAlertPassFor(info)
    /\ UNCHANGED <<dvars, evars, rvars>>

DiscordRed == 16711680       \* 0xFF0000
DiscordOrange == 16737792    \* 0xFF6600

\* Variant: the embed is red whatever the attack type.
discord_color_always_red(attack_type) == DiscordRed

\* Lines 342-346: the embed color of _send_discord.
discord_color(attack_type) ==
    IF attack_type = "DDoS" THEN DiscordRed ELSE DiscordOrange

\* Lines 374-378: the attachment color of _send_slack.
slack_color(attack_type) ==
    IF attack_type = "DDoS" THEN "danger" ELSE "warning"

\* The two palettes side by side: red and "danger" are the higher level,
\* orange and "warning" the lower.
Severity(channel, color) ==
    IF channel = "discord"
       THEN (IF color = DiscordRed THEN 2 ELSE 1)
       ELSE (IF color = "danger" THEN 2 ELSE 1)

\* One requests.post of _send_discord / _send_slack, with the color the
\* payload carries; `ok` is FALSE when the post or raise_for_status raised.
Post(channel, ok) ==
    LET attack_type == attack_info[1].attack_type IN
    posts' = Append(posts, [channel |-> channel,
                            target |-> attack_info[1].dst_ip,
                            attack_type |-> attack_type,
                            color |-> IF channel = "discord"
                                         THEN discord_color(attack_type)
                                         ELSE slack_color(attack_type),
                            at |-> now,
                            ok |-> ok])

\* Variant: the sender lets the exception out, which ends send_alert.
AfterSenderUncaught(ok, next) == IF ok THEN next ELSE "idle"

\* Lines 366-367, 396-397: `except Exception` logs the failure and the
\* sender returns, so send_alert goes on to `next` either way.
AfterSender(ok, next) == next

\* Lines 294-297, 337-367.
SendDiscord ==
    /\ npc = "discord"
    /\ IF discord_webhook
          THEN \E ok \in BOOLEAN :
                  /\ Post("discord", ok)
                  /\ npc' = AfterSender(ok, "slack")
          ELSE /\ posts' = posts
               /\ npc' = "slack"
    /\ UNCHANGED <<discord_webhook, slack_webhook, last_notifications, now,
                   attack_info, call, returned>>
    /\ UNCHANGED <<dvars, evars, rvars>>

\* Lines 299-302, 369-397.
SendSlack ==
    /\ npc = "slack"
    /\ IF slack_webhook
          THEN \E ok \in BOOLEAN :
                  /\ Post("slack", ok)
                  /\ npc' = AfterSender(ok, "update")
          ELSE /\ posts' = posts
               /\ npc' = "update"
    /\ UNCHANGED <<discord_webhook, slack_webhook, last_notifications, now,
                   attack_info, call, returned>>
    /\ UNCHANGED <<dvars, evars, rvars>>

\* Lines 304-305, and the return.
UpdateLast ==
    /\ npc = "update"
    /\ last_notifications' =
          AfterDispatch(last_notifications, attack_info[1].dst_ip, now, posts)
    /\ npc' = "idle"
    /\ attack_info' = None
    /\ returned' = [returned EXCEPT !.dispatched = Some(ReturnValue(TRUE))]
    /\ UNCHANGED <<discord_webhook, slack_webhook, now, posts, call>>
    /\ UNCHANGED <<dvars, evars, rvars>>

----------------------------------------------------------------------------
(* Specification of the notifier *)

InitNotify ==
    /\ enabled = FALSE
    /\ DetectorAtRest
    /\ discord_webhook \in BOOLEAN
    /\ slack_webhook \in BOOLEAN
    /\ last_notifications = << >>
    /\ now = 0
    /\ npc = "idle"
    /\ attack_info = None
    /\ posts = <<>>
    /\ call = None
    /\ returned = NoReturn
    /\ EntropyAtRest
    /\ RunAtRest

NextNotify ==
    \/ Tick
    \/ SendAlertSkip
    \/ SendAlertPass
    \/ SendDiscord
    \/ SendSlack
    \/ UpdateLast

SpecNotify == InitNotify /\ [][NextNotify]_vars

----------------------------------------------------------------------------
(* Specification of the main loop: DDoSDetector.run *)

\* The events of the main loop: for each target the event of a spread
\* attack triggered by entropy.  The loop reads nothing of an event; it
\* hands it to send_alert.
RunEvents == {info \in AlertEvents : info.entropy_triggered}

\* The lists detect_attacks can return: at most one event per row, in row
\* order, rows being named in list order.
DetectResults ==
    {events \in SeqsUpTo(RunEvents, MaxDst) :
        \A i \in DOMAIN events : \A j \in DOMAIN events :
           i < j => \E r1 \in 1..MaxDst : \E r2 \in 1..MaxDst :
                       /\ r1 < r2
                       /\ events[i].dst_ip = DstName(r1)
                       /\ events[j].dst_ip = DstName(r2)}

\* Variant: after an Exception the for loop of line 558 still runs.
ExceptClauseResumes(exc) ==
    IF exc = "KeyboardInterrupt" THEN "stopped" ELSE "notify"

\* Variant: the loop is left on any exception.
ExceptClauseAlwaysBreaks(exc) == "stopped"

\* Lines 568-573: `except KeyboardInterrupt` breaks, `except Exception`
\* logs and sleeps.
ExceptClause(exc) ==
    IF exc = "KeyboardInterrupt" THEN "stopped" ELSE "except_sleep"

\* Variant: the for loop is left after its first iteration.
LoopDoneAfterFirst(i, events) == i > 1 \/ i > Len(events)

\* Line 558: `for attack in attacks` has no element left.
LoopDone(i, events) == i > Len(events)

\* Line 556: detect_attacks returns its list.
RunDetectReturns ==
    /\ rpc = "detect"
    /\ \E events \in DetectResults : attacks' = events
    /\ ai' = 1
    /\ sent' = <<>>
    /\ partial' = <<>>
    /\ raised' = None
    /\ rpc' = "notify"
    /\ UNCHANGED <<enabled, pc, total_external_bps, dst_stats, di, stat, si,
                   api_quota_reached, should_alert, abuse_info, dst_queried,
                   lookups, results, evals, hit_before, failed>>
    /\ UNCHANGED <<nvars, evars>>

\* Line 556: a statement of detect_attacks raises an Exception (a
\* comparison or a sum over a value of the wrong type), with `partial`
\* the events appended so far; the assignment to `attacks` does not
\* happen and the except clause of line 571 runs.
RunDetectRaises ==
    /\ rpc = "detect"
    /\ \E events \in DetectResults : partial' = events
    /\ sent' = <<>>
    /\ raised' = Some("Exception")
    /\ rpc' = ExceptClause("Exception")
    /\ UNCHANGED ai
    /\ UNCHANGED <<dvars, nvars, evars>>

\* Lines 558-559: send_alert(attack) returns at the cooldown gate.
RunSendAlertSkip ==
    /\ rpc = "notify"
    /\ ~LoopDone(ai, attacks)
    /\ SendAlertSkipFor(attacks[ai])
    /\ sent' = Append(sent, attacks[ai])
    /\ ai' = ai + 1
    /\ UNCHANGED <<rpc, partial, raised>>
    /\ UNCHANGED <<dvars, evars>>

\* Lines 558-559: send_alert(attack) passes the cooldown gate.
RunSendAlertPass ==
    /\ rpc = "notify"
    /\ ~LoopDone(ai, attacks)
    /\ SendAlertPassFor(attacks[ai])
    /\ sent' = Append(sent, attacks[ai])
    /\ rpc' = "in_alert"
    /\ UNCHANGED <<ai, partial, raised>>
    /\ UNCHANGED <<dvars, evars>>

\* The statements of the send_alert call in progress.
RunSendDiscord == rpc = "in_alert" /\ SendDiscord

RunSendSlack == rpc = "in_alert" /\ SendSlack

RunUpdateLast == rpc = "in_alert" /\ UpdateLast

\* Line 558: send_alert has returned, the for loop advances.
RunAlertReturns ==
    /\ rpc = "in_alert"
    /\ npc = "idle"
    /\ ai' = ai + 1
    /\ rpc' = "notify"
    /\ UNCHANGED <<sent, partial, raised>>
    /\ UNCHANGED <<dvars, nvars, evars>>

\* Lines 561-566: the for loop is over, the loop logs and sleeps.
RunSleep ==
    /\ rpc = "notify"
    /\ LoopDone(ai, attacks)
    /\ rpc' = "sleep"
    /\ UNCHANGED <<ai, sent, partial, raised>>
    /\ UNCHANGED <<dvars, nvars, evars>>

\* Lines 566 / 573 and 554: time.sleep returns and `while True` starts the
\* next cycle.  Nothing reads the previous iteration's `attacks` again, and
\* the histories start afresh; `raised` stays until the next detect_attacks
\* call is over.
RunWake ==
    /\ rpc \in {"sleep", "except_sleep"}
    /\ rpc' = "detect"
    /\ attacks' = <<>>
    /\ ai' = 1
    /\ sent' = <<>>
    /\ partial' = <<>>
    /\ call' = None
    /\ posts' = <<>>
    /\ returned' = NoReturn
    /\ UNCHANGED raised
    /\ UNCHANGED <<enabled, pc, total_external_bps, dst_stats, di, stat, si,
                   api_quota_reached, should_alert, abuse_info, dst_queried,
                   lookups, results, evals, hit_before, failed>>
    /\ UNCHANGED <<discord_webhook, slack_webhook, last_notifications, now,
                   npc, attack_info>>
    /\ UNCHANGED evars

\* The user interrupts the process.  Inside the try block the
\* KeyboardInterrupt reaches the clause of line 568; during the sleep of
\* line 573, which is outside the try block, it leaves run.
RunInterrupt ==
    /\ rpc \in {"detect", "notify", "in_alert", "sleep", "except_sleep"}
    /\ raised' = Some("KeyboardInterrupt")
    /\ rpc' = IF rpc = "except_sleep"
                 THEN "propagated"
                 ELSE ExceptClause("KeyboardInterrupt")
    /\ UNCHANGED <<ai, sent, partial>>
    /\ UNCHANGED <<dvars, nvars, evars>>

\* Line 554: run has entered `while True`.
InitRun ==
    /\ enabled = FALSE
    /\ DetectorAtRest
    /\ discord_webhook \in BOOLEAN
    /\ slack_webhook \in BOOLEAN
    /\ last_notifications = << >>
    /\ now = 0
    /\ npc = "idle"
    /\ attack_info = None
    /\ posts = <<>>
    /\ call = None
    /\ returned = NoReturn
    /\ EntropyAtRest
    /\ rpc = "detect"
    /\ ai = 1
    /\ sent = <<>>
    /\ partial = <<>>
    /\ raised = None

NextRun ==
    \/ Tick
    \/ RunDetectReturns
    \/ RunDetectRaises
    \/ RunSendAlertSkip
    \/ RunSendAlertPass
    \/ RunSendDiscord
    \/ RunSendSlack
    \/ RunUpdateLast
    \/ RunAlertReturns
    \/ RunSleep
    \/ RunWake
    \/ RunInterrupt

SpecRun == InitRun /\ [][NextRun]_vars

----------------------------------------------------------------------------
(* Specification of the main loop over unbounded time *)

\* last_notifications when the clock has advanced by one unit, on a time
\* scale whose origin moves with the clock: every stamp is one unit
\* further in the past.  _should_notify reads a stamp only through
\* `now - last_time >= cooldown`, so an age beyond the cooldown is kept
\* as the cooldown.
Aged(memo, t) ==
    [x \in DOMAIN memo |->
        IF memo[x] - 1 < t - cooldown THEN t - cooldown ELSE memo[x] - 1]

\* datetime.now() a unit later, with the origin of the scale moved along.
ClockShift ==
    /\ now = MaxTime
    /\ last_notifications' = Aged(last_notifications, now)
    /\ UNCHANGED <<discord_webhook, slack_webhook, now, npc, attack_info,
                   posts, call, returned>>
    /\ UNCHANGED <<dvars, evars, rvars>>

\* Line 554: run has entered `while True`; the clock reads the top of the
\* scale and stays there.
InitLive ==
    /\ enabled = FALSE
    /\ DetectorAtRest
    /\ discord_webhook \in BOOLEAN
    /\ slack_webhook \in BOOLEAN
    /\ last_notifications = << >>
    /\ now = MaxTime
    /\ npc = "idle"
    /\ attack_info = None
    /\ posts = <<>>
    /\ call = None
    /\ returned = NoReturn
    /\ EntropyAtRest
    /\ rpc = "detect"
    /\ ai = 1
    /\ sent = <<>>
    /\ partial = <<>>
    /\ raised = None

\* The statements of run and of the calls it makes: each of them
\* terminates (the queries and the posts have timeouts, time.sleep
\* returns), so the loop takes its next step whenever it has one.
RunStep ==
    \/ RunDetectReturns
    \/ RunDetectRaises
    \/ RunSendAlertSkip
    \/ RunSendAlertPass
    \/ RunSendDiscord
    \/ RunSendSlack
    \/ RunUpdateLast
    \/ RunAlertReturns
    \/ RunSleep
    \/ RunWake

NextLive ==
    \/ ClockShift
    \/ RunStep
    \/ RunInterrupt

\* The loop keeps taking its steps and time keeps passing; the user may
\* or may not interrupt.
Fairness ==
    /\ WF_vars(RunStep)
    /\ WF_vars(ClockShift)

SpecLive == InitLive /\ [][NextLive]_vars /\ Fairness

----------------------------------------------------------------------------
(* Specification of calculate_normalized_entropy *)

\* The argument lists of a call: addresses and weights of any length up to
\* MaxSrc each, zero weights included.
EntropyIps == SeqsUpTo({"a", "b"}, MaxSrc)
EntropyBytes == SeqsUpTo({0, 1, HeavyBytes}, MaxSrc)

InitEntropy ==
    /\ enabled = FALSE
    /\ DetectorAtRest
    /\ NotifierAtRest
    /\ RunAtRest
    /\ arg_ips \in EntropyIps
    /\ arg_bytes \in EntropyBytes
    /\ ret_entropy = None
    /\ epc = "call"

\* The static method runs on its arguments and returns.
EntropyCall ==
    /\ epc = "call"
    /\ ret_entropy' = Some(calculate_normalized_entropy(arg_ips, arg_bytes))
    /\ epc' = "returned"
    /\ UNCHANGED <<arg_ips, arg_bytes>>
    /\ UNCHANGED <<dvars, nvars, rvars>>

\* The next call, with other arguments.
EntropyAgain ==
    /\ epc = "returned"
    /\ arg_ips' \in EntropyIps
    /\ arg_bytes' \in EntropyBytes
    /\ ret_entropy' = None
    /\ epc' = "call"
    /\ UNCHANGED <<dvars, nvars, rvars>>

NextEntropy ==
    \/ EntropyCall
    \/ EntropyAgain

SpecEntropy == InitEntropy /\ [][NextEntropy]_vars

----------------------------------------------------------------------------
(* Properties of the detection engine (Spec) *)

InLoop == pc \in {"for_stat", "check_ips", "after_ips"}

LookupsOf(r) == SelectSeq(lookups, LAMBDA l : l.row = r)

EventsOf(r) == SelectSeq(attacks, LAMBDA a : a.dst_ip = dst_stats[r].dst_ip)

AnyHit(s) == \E i \in DOMAIN s : s[i].hit

\* The row held in stat has been finished by the lookup branch.
StatChecked ==
    /\ stat # None
    /\ \E k \in DOMAIN evals :
          evals[k].dst_ip = stat[1].dst_ip /\ evals[k].checked

\* C1: when the total external bit-rate is at or below
\* total_external_bps_threshold, the cycle returns an empty list and has
\* called neither get_dst_traffic_stats nor check_ip.
C1_ClosedGateIssuesNoQuery ==
    (pc # "start" /\ total_external_bps <= total_threshold)
        => /\ pc = "returned"
           /\ attacks = <<>>
           /\ ~dst_queried
           /\ lookups = <<>>

C1_Witness ==
    /\ pc = "returned"
    /\ total_external_bps = total_threshold
    /\ hit_before

\* C2: within one cycle no lookup follows a lookup that returned
\* is_reported = true: a reported result can only be the last of the cycle.
C2_NoLookupAfterHit ==
    \A i \in DOMAIN lookups : lookups[i].hit => i = Len(lookups)

C2_Witness ==
    /\ pc = "returned"
    /\ Len(evals) = 2
    /\ \A k \in 1..2 : evals[k].above /\ evals[k].n_src = 2
    /\ Len(lookups) = 1
    /\ lookups[1].hit

\* C3: for a destination whose sources are looked up, the lookups follow
\* the source list from its first entry and none but the last is reported;
\* once the destination is finished, a reported last lookup has ended them
\* and its result is the evidence of the one event emitted, and without a
\* hit the whole list was queried and no event carries evidence.
C3_LookupsInOrderUntilHit ==
    /\ results # <<>> =>
          /\ stat # None
          /\ Len(results) <= Len(stat[1].src_ips)
          /\ \A j \in DOMAIN results :
                /\ results[j].pos = j
                /\ results[j].ip = stat[1].src_ips[j]
                /\ Reported(results[j].result) => j = Len(results)
    /\ StatChecked =>
          LET E == SelectSeq(attacks, LAMBDA a : a.dst_ip = stat[1].dst_ip)
              n == Len(results)
          IN  IF n > 0 /\ Reported(results[n].result)
                 THEN /\ Len(E) = 1
                      /\ E[1].abuse_info = results[n].result
                 ELSE /\ n = Len(stat[1].src_ips)
                      /\ \A j \in DOMAIN E : E[j].abuse_info = None

C3_Witness ==
    /\ StatChecked
    /\ Len(stat[1].src_ips) = 2
    /\ Len(results) = 1
    /\ Reported(results[1].result)
    /\ attacks # <<>>
    /\ attacks[Len(attacks)].dst_ip = stat[1].dst_ip
    /\ attacks[Len(attacks)].attack_type = "DoS"

\* C4: every returned event has reputation evidence or was triggered by
\* entropy, and never both.
C4_ExactlyOneReason ==
    \A i \in DOMAIN attacks :
        (attacks[i].abuse_info # None) # (attacks[i].entropy_triggered = TRUE)

C4_Witness ==
    /\ pc = "returned"
    /\ Len(attacks) = 2
    /\ attacks[1].abuse_info # None
    /\ attacks[1].entropy > entropy_threshold
    /\ attacks[2].entropy_triggered

\* C5: a destination above dst_bps_threshold that is evaluated with the
\* budget flag already set yields one event if its entropy exceeds
\* entropy_threshold and none otherwise; the event is entropy-triggered and
\* carries no evidence.
C5_AfterExhaustionEntropyDecides ==
    \A k \in DOMAIN evals :
        (evals[k].above /\ evals[k].quota) =>
            LET E == EventsOf(evals[k].row)
                high == evals[k].entropy > entropy_threshold
            IN  /\ Len(E) = (IF high THEN 1 ELSE 0)
                /\ \A j \in DOMAIN E : /\ E[j].entropy_triggered
                                       /\ E[j].abuse_info = None

C5_Witness ==
    \E k \in DOMAIN evals :
        /\ evals[k].above
        /\ evals[k].quota
        /\ AnyHit(lookups)
        /\ evals[k].entropy > 0
        /\ evals[k].entropy <= entropy_threshold
        /\ EventsOf(evals[k].row) = <<>>

\* C6: with the checker disabled no lookup is ever issued, and a cycle that
\* passed the gate returns one event for each destination with bit-rate
\* above dst_bps_threshold and entropy above entropy_threshold, none for any
\* other, each entropy-triggered and without evidence.
C6_DisabledCheckerEntropyOnly ==
    ~enabled =>
        /\ lookups = <<>>
        /\ (pc = "returned" /\ total_external_bps > total_threshold) =>
              /\ Len(evals) = Len(dst_stats)
              /\ \A r \in DOMAIN dst_stats :
                    Len(EventsOf(r)) =
                       (IF /\ dst_stats[r].bps > dst_threshold
                           /\ evals[r].entropy > entropy_threshold
                           THEN 1 ELSE 0)
              /\ \A i \in DOMAIN attacks :
                    /\ \E r \in DOMAIN dst_stats :
                          attacks[i].dst_ip = dst_stats[r].dst_ip
                    /\ attacks[i].entropy_triggered
                    /\ attacks[i].abuse_info = None

C6_Witness ==
    /\ ~enabled
    /\ pc = "returned"
    /\ Len(dst_stats) = 2
    /\ \A r \in 1..2 : dst_stats[r].bps > dst_threshold
    /\ Len(attacks) = 1
    /\ attacks[1].dst_ip = dst_stats[2].dst_ip
    /\ evals[1].n_src = 2

\* C7: a destination whose sources were all looked up without a reported
\* result yields one entropy-triggered event without evidence if its entropy
\* exceeds entropy_threshold and none otherwise, and leaves the budget flag
\* unset: the sources of the next destination above dst_bps_threshold are
\* looked up too.
C7_NoHitFallsBackToEntropy ==
    \A k \in DOMAIN evals :
        (evals[k].checked /\ ~AnyHit(LookupsOf(evals[k].row))) =>
            LET E == EventsOf(evals[k].row)
                high == evals[k].entropy > entropy_threshold
            IN  /\ Len(LookupsOf(evals[k].row)) = evals[k].n_src
                /\ Len(E) = (IF high THEN 1 ELSE 0)
                /\ \A j \in DOMAIN E : /\ E[j].entropy_triggered
                                       /\ E[j].abuse_info = None
                /\ (k = Len(evals) /\ pc = "for_stat") => ~api_quota_reached
                /\ \A m \in DOMAIN evals :
                      (/\ m > k
                       /\ evals[m].above
                       /\ \A x \in (k+1)..(m-1) : ~evals[x].above)
                      => /\ evals[m].checked
                         /\ Len(LookupsOf(evals[m].row)) >= 1
                               \/ evals[m].n_src = 0

C7_Witness ==
    /\ Len(evals) = 2
    /\ evals[1].checked
    /\ Len(LookupsOf(1)) = 2
    /\ ~AnyHit(LookupsOf(1))
    /\ evals[1].entropy > 0
    /\ EventsOf(1) = <<>>
    /\ evals[2].checked
    /\ Len(LookupsOf(2)) >= 1

\* C8: the budget flag is unset when a cycle begins its first destination,
\* it is set only by a reported lookup of the same cycle, and an enabled
\* checker is consulted for every destination above dst_bps_threshold that
\* no reported lookup of the same cycle precedes, whatever earlier cycles
\* found.
C8_FlagResetsEveryCycle ==
    /\ (pc = "for_stat" /\ di = 1) => ~api_quota_reached
    /\ (InLoop /\ api_quota_reached) => AnyHit(lookups)
    /\ \A k \in DOMAIN evals :
          (/\ enabled
           /\ evals[k].above
           /\ \A i \in DOMAIN lookups :
                 lookups[i].row < evals[k].row => ~lookups[i].hit)
          => evals[k].checked /\ ~evals[k].quota

C8_Witness ==
    /\ hit_before
    /\ pc = "returned"
    /\ \E k \in DOMAIN evals :
          /\ evals[k].checked
          /\ LookupsOf(evals[k].row) # <<>>

----------------------------------------------------------------------------
(* Properties of the notifier (SpecNotify) *)

\* C9: a send_alert call passes the cooldown gate exactly when the target
\* has no entry in last_notifications or the time since the stored
\* timestamp is at least the cooldown.
C9_GateIffAbsentOrElapsed ==
    call # None =>
        LET c == call[1] IN
        c.passed <=> (\/ c.target \notin DOMAIN c.memo
                      \/ c.at - c.memo[c.target] >= cooldown)

C9_Witness ==
    /\ call # None
    /\ call[1].passed
    /\ call[1].target \in DOMAIN call[1].memo
    /\ call[1].at - call[1].memo[call[1].target] = cooldown

\* C10: a send_alert call stopped by the cooldown gate makes no transport
\* call and leaves last_notifications as it found it, for every target.
C10_SkipTouchesNothing ==
    (call # None /\ ~call[1].passed) =>
        /\ posts = <<>>
        /\ last_notifications = call[1].memo
        /\ npc = "idle"

C10_Witness ==
    /\ call # None
    /\ ~call[1].passed
    /\ call[1].at > call[1].memo[call[1].target]
    /\ DOMAIN last_notifications = Targets

\* C11: when a send_alert call that passed the cooldown gate and made at
\* least one transport call reaches line 305, last_notifications[target]
\* becomes the clock value of that moment, whatever the transport calls
\* returned; a call whose every post failed restarts the cooldown too.
C11_DispatchRestartsCooldown ==
    [][(npc = "update" /\ npc' = "idle" /\ posts # <<>>)
          => /\ attack_info[1].dst_ip \in DOMAIN last_notifications'
             /\ last_notifications'[attack_info[1].dst_ip] = now]_vars

\* A finished call for a target already in the memo, both posts failed, and
\* the entry moved forward to the current clock value.
C11_Witness ==
    /\ npc = "idle"
    /\ call # None
    /\ call[1].passed
    /\ Len(posts) = 2
    /\ \A i \in DOMAIN posts : ~posts[i].ok
    /\ call[1].target \in DOMAIN call[1].memo
    /\ last_notifications[call[1].target] > call[1].memo[call[1].target]
    /\ last_notifications[call[1].target] = now

\* C12: last_notifications changes only in a send_alert call that made at
\* least one transport call; a finished call without any transport call,
\* be it suppressed by the cooldown or run with no channel configured,
\* leaves the memo as it found it.
C12_UpdatedOnlyAfterDispatch ==
    (call # None /\ npc = "idle" /\ posts = <<>>)
       => last_notifications = call[1].memo

\* A channel has a transport call in the latest send_alert.
Attempted(channel) == \E i \in DOMAIN posts : posts[i].channel = channel

\* C13: in a call that passed the gate, once send_alert is past a channel
\* that channel has a transport call exactly if its webhook is configured,
\* whatever the earlier transport call returned; and the call runs to its
\* end (line 305) instead of being cut short by a sender's exception.
C13_EveryConfiguredChannelAttempted ==
    (call # None /\ call[1].passed) =>
       /\ npc \in {"slack", "update", "idle"}
             => (discord_webhook <=> Attempted("discord"))
       /\ npc \in {"update", "idle"}
             => (slack_webhook <=> Attempted("slack"))
       /\ npc = "idle"
             => /\ call[1].target \in DOMAIN last_notifications
                /\ last_notifications[call[1].target] >= call[1].at

\* The Discord post failed and the Slack post was made after it.
C13_Witness ==
    /\ npc = "idle"
    /\ call # None
    /\ call[1].passed
    /\ Len(posts) = 2
    /\ posts[1].channel = "discord"
    /\ ~posts[1].ok
    /\ posts[2].channel = "slack"
    /\ posts[2].ok

\* C19 as stated: the severity level of every payload follows the trigger
\* reason of the event, the higher level for an event with a reported
\* source, the lower for an event triggered by entropy.
C19_SeverityByTriggerReason ==
    attack_info # None =>
       \A i \in DOMAIN posts :
          Severity(posts[i].channel, posts[i].color)
             = IF attack_info[1].abuse_info # None THEN 2 ELSE 1

\* C19, amended: the severity level of every payload follows the attack
\* type of the event, the higher level for DDoS and the lower for DoS,
\* whatever the trigger reason; the Discord and the Slack payload of one
\* event carry the same level.
C19_SeverityByAttackType ==
    /\ \A i \in DOMAIN posts :
          Severity(posts[i].channel, posts[i].color)
             = IF posts[i].attack_type = "DDoS" THEN 2 ELSE 1
    /\ \A i \in DOMAIN posts : \A j \in DOMAIN posts :
          Severity(posts[i].channel, posts[i].color)
             = Severity(posts[j].channel, posts[j].color)

\* An event with a reported source and concentrated traffic, posted to both
\* channels at the lower level.
C19_Witness ==
    /\ attack_info # None
    /\ attack_info[1].abuse_info # None
    /\ attack_info[1].attack_type = "DoS"
    /\ Len(posts) = 2
    /\ posts[1].channel = "discord"
    /\ posts[2].channel = "slack"
    /\ \A i \in DOMAIN posts : Severity(posts[i].channel, posts[i].color) = 1

\* C16: a provider query that ends in its except clause does not reach
\* detect_attacks as an exception.  After a failed total query the total is
\* 0, the gate is closed and the call has returned no event without asking
\* for the destinations; after a failed per-destination query the list is
\* empty, no row is evaluated and the call goes on to return no event.
C16_QueryFailureAbsorbed ==
    /\ "total" \in failed
          => /\ total_external_bps = 0
             /\ pc = "returned"
             /\ ~dst_queried
             /\ attacks = <<>>
    /\ "dst" \in failed
          => /\ dst_stats = <<>>
             /\ pc \in {"for_stat", "returned"}
             /\ evals = <<>>
             /\ lookups = <<>>
             /\ attacks = <<>>

\* A cycle whose per-destination query failed has returned.
C16_Witness ==
    /\ pc = "returned"
    /\ "dst" \in failed
    /\ total_external_bps > total_threshold
    /\ attacks = <<>>

\* C17: a check_ip call that returned None (request failed, no data) is not
\* a hit: the source after it is queried next, and while it is the latest
\* call for the row the quota flag is still clear, no evidence is held and
\* the loop has not been left.
C17_FailedLookupIsNotAHit ==
    (InLoop /\ stat # None) =>
       \A j \in DOMAIN results :
          results[j].result = None =>
             /\ j < Len(results) => results[j + 1].pos = results[j].pos + 1
             /\ (j = Len(results) /\ pc = "check_ips")
                   => /\ si = results[j].pos + 1
                      /\ ~api_quota_reached
                      /\ ~should_alert
                      /\ abuse_info = None
             /\ (j = Len(results) /\ pc # "check_ips")
                   => /\ results[j].pos = Len(stat[1].src_ips)
                      /\ abuse_info = None

\* The first lookup of a row returned None and the second source was
\* queried and found reported.
C17_Witness ==
    /\ pc = "after_ips"
    /\ Len(results) = 2
    /\ results[1].result = None
    /\ results[2].pos = 2
    /\ Reported(results[2].result)
    /\ abuse_info = results[2].result

\* The row of dst_stats an event was built from.
RowOf(info) == CHOOSE r \in DOMAIN dst_stats : dst_stats[r].dst_ip = info.dst_ip

\* C18: every event comes from a row of the provider's list, the events
\* stand in the order of their rows, and no row has two events.
C18_EventsInRowOrder ==
    /\ \A i \in DOMAIN attacks :
          \E r \in DOMAIN dst_stats : dst_stats[r].dst_ip = attacks[i].dst_ip
    /\ \A i \in DOMAIN attacks : \A j \in DOMAIN attacks :
          i < j => RowOf(attacks[i]) < RowOf(attacks[j])

\* Two rows, two events, in row order.
C18_Witness ==
    /\ pc = "returned"
    /\ Len(dst_stats) = 2
    /\ Len(attacks) = 2
    /\ attacks[1].dst_ip = dst_stats[1].dst_ip
    /\ attacks[2].dst_ip = dst_stats[2].dst_ip

----------------------------------------------------------------------------
(* Properties of calculate_normalized_entropy (SpecEntropy) *)

\* C20: calculate_normalized_entropy returns 0 whenever src_ips is empty,
\* src_bytes is empty, or every weight is zero (the weights are
\* non-negative, so that is a zero sum).
C20_ZeroOnEmptyOrZeroTotal ==
    (/\ epc = "returned"
     /\ \/ arg_ips = <<>>
        \/ arg_bytes = <<>>
        \/ \A i \in DOMAIN arg_bytes : arg_bytes[i] = 0)
       => ret_entropy = Some(0)

\* Two addresses with two zero weights gave 0.
C20_Witness ==
    /\ epc = "returned"
    /\ Len(arg_ips) = 2
    /\ arg_bytes = <<0, 0>>
    /\ ret_entropy = Some(0)

\* C26: calculate_normalized_entropy returns 0 whenever src_ips holds at
\* most one distinct address, one address repeated with positive weights
\* included.
C26_ZeroOnOneDistinctAddress ==
    (/\ epc = "returned"
     /\ Cardinality({arg_ips[i] : i \in DOMAIN arg_ips}) <= 1)
       => ret_entropy = Some(0)

----------------------------------------------------------------------------
(* Properties of the main loop (SpecRun) *)

\* C14: a step in which detect_attacks raises an Exception takes the loop to
\* the sleep of its except clause; from that sleep the loop goes to the
\* next detect_attacks call, unless the user interrupts; and the loop is
\* only ever left with a KeyboardInterrupt as the exception raised.
C14_OnlyInterruptEndsLoop ==
    [][/\ (rpc = "detect" /\ rpc' # "detect" /\ raised' = Some("Exception"))
             => rpc' = "except_sleep"
       /\ (rpc = "except_sleep" /\ rpc' # "except_sleep")
             => (rpc' = "detect" \/ raised' = Some("KeyboardInterrupt"))
       /\ rpc' \in {"stopped", "propagated"}
             => raised' = Some("KeyboardInterrupt")]_vars

\* detect_attacks raised, the loop slept and is at the next call.
C14_Witness ==
    /\ rpc = "detect"
    /\ raised = Some("Exception")
    /\ last_notifications # << >>

\* What holds of a cycle in which detect_attacks has returned: the events
\* handed to send_alert so far are the first events of the list, in list
\* order, the latest send_alert call was for the last of them, and the loop
\* sleeps only after the last event's call has returned.
CycleInOrder ==
    /\ rpc \in {"notify", "in_alert", "sleep"}
          => /\ Len(sent) <= Len(attacks)
             /\ \A i \in DOMAIN sent : sent[i] = attacks[i]
             /\ Len(sent) = (IF rpc = "in_alert" THEN ai ELSE ai - 1)
             /\ sent # <<>>
                   => /\ call # None
                      /\ call[1].target = sent[Len(sent)].dst_ip
    /\ rpc = "sleep" => (sent = attacks /\ npc = "idle")

\* C15: send_alert is called only from the for loop that follows a
\* returned detect_attacks, with the next event of the list each time; the
\* loop sleeps at line 566 only when every returned event has been handed
\* to send_alert and the call has returned; and detect_attacks is called
\* again only out of a sleep.
C15_DetectThenNotifyThenSleep ==
    [][/\ CycleInOrder'
       /\ (sent' # sent /\ sent' # <<>>)
             => /\ rpc = "notify"
                /\ ai <= Len(attacks)
                /\ sent' = Append(sent, attacks[ai])
       /\ call' # call
             => (sent' # sent \/ call' = None)
       /\ (rpc' = "detect" /\ rpc # "detect")
             => /\ rpc \in {"sleep", "except_sleep"}
                /\ npc = "idle"]_vars

\* The loop sleeps after two send_alert calls for two returned events.
C15_Witness ==
    /\ rpc = "sleep"
    /\ Len(attacks) = 2
    /\ sent = attacks
    /\ call # None
    /\ call[1].target = attacks[2].dst_ip

\* C30: the step in which detect_attacks raises an Exception takes the
\* loop to the sleep of the except clause without a send_alert call, with
\* nothing assigned to the list of the for loop, and leaves
\* last_notifications as it was, whatever events the call had appended
\* before it raised; until that sleep is over no send_alert call starts, no
\* transport call is made and last_notifications stays as it was.
C30_RaiseDeliversNothing ==
    [][/\ (rpc = "detect" /\ rpc' # "detect" /\ raised' = Some("Exception"))
             => /\ rpc' = "except_sleep"
                /\ attacks' = attacks
                /\ sent' = <<>>
                /\ call' = call
                /\ posts' = posts
                /\ last_notifications' = last_notifications
       /\ rpc = "except_sleep"
             => /\ rpc' \in {"except_sleep", "detect", "propagated"}
                /\ attacks' = <<>>
                /\ sent' = <<>>
                /\ call' = None
                /\ posts' = <<>>
                /\ npc' = "idle"
                /\ last_notifications' = last_notifications]_vars

\* detect_attacks raised after it had appended an event for a target that
\* has no entry in last_notifications, with a channel configured: the loop
\* is in the sleep of the except clause and nothing was sent.
C30_Witness ==
    /\ rpc = "except_sleep"
    /\ raised = Some("Exception")
    /\ discord_webhook
    /\ partial # <<>>
    /\ partial[1].dst_ip \notin DOMAIN last_notifications
    /\ sent = <<>>
    /\ posts = <<>>

----------------------------------------------------------------------------
(* Properties of the main loop over unbounded time (SpecLive) *)

\* C29: when at least one channel is configured, a target that is among
\* the events of the for loop again and again has a transport call made
\* for it again and again, the loop taking its steps and the clock
\* advancing.
C29_RecurringTargetAlertedAgain ==
    \A t \in Targets :
       (/\ discord_webhook \/ slack_webhook
        /\ []<>(/\ rpc = "notify"
                /\ \E i \in DOMAIN attacks : attacks[i].dst_ip = t))
          => []<>(\E i \in DOMAIN posts : posts[i].target = t)

\* A send_alert call found an entry for its target, passed the gate and
\* made a transport call: the target is alerted a further time.
C29_Witness ==
    /\ call # None
    /\ call[1].passed
    /\ call[1].target \in DOMAIN call[1].memo
    /\ posts # <<>>
    /\ posts[1].target = call[1].target

----------------------------------------------------------------------------
(* Further properties of the detection engine (Spec) *)

\* C21: a row whose bps is at or below dst_threshold, equality included,
\* has no event and no check_ip call, its source columns are not evaluated,
\* and the quota flag after it is the flag found on entry.
C21_RowAtOrBelowThresholdDropped ==
    \A k \in DOMAIN evals :
       evals[k].bps <= dst_threshold =>
          /\ ~evals[k].alerted
          /\ ~evals[k].checked
          /\ ~evals[k].above
          /\ \A i \in DOMAIN lookups : lookups[i].row # evals[k].row
          /\ \A i \in DOMAIN attacks : attacks[i].dst_ip # evals[k].dst_ip
          /\ k < Len(evals) => evals[k + 1].quota = evals[k].quota
          /\ (k = Len(evals) /\ pc \in {"for_stat", "check_ips", "returned"})
                => api_quota_reached = evals[k].quota

\* A row exactly at the threshold was passed over after a row with a
\* reported source, and the flag set by that row is still set.
C21_Witness ==
    /\ pc = "returned"
    /\ Len(evals) = 2
    /\ evals[1].alerted
    /\ evals[2].bps = dst_threshold
    /\ evals[2].quota
    /\ api_quota_reached
    /\ Len(attacks) = 1

\* C22: the attack_type of every event is "DDoS" exactly when the entropy
\* of its row is above entropy_threshold and "DoS" otherwise, whatever
\* triggered the event; an event triggered by entropy is therefore "DDoS".
C22_LabelFollowsEntropy ==
    \A i \in DOMAIN attacks :
       LET info == attacks[i] IN
       /\ info.attack_type \in {"DDoS", "DoS"}
       /\ info.attack_type = "DDoS" <=> info.entropy > entropy_threshold
       /\ info.entropy_triggered => info.attack_type = "DDoS"
       /\ \A k \in DOMAIN evals :
             evals[k].dst_ip = info.dst_ip => evals[k].entropy = info.entropy

\* One cycle returned an event with a reported source labelled DoS and an
\* event triggered by entropy labelled DDoS.
C22_Witness ==
    /\ pc = "returned"
    /\ Len(attacks) = 2
    /\ attacks[1].abuse_info # None
    /\ attacks[1].attack_type = "DoS"
    /\ attacks[2].entropy_triggered
    /\ attacks[2].attack_type = "DDoS"

\* C27: once the gate is passed, every row with bps above dst_threshold and
\* entropy above entropy_threshold has exactly one event in the list as soon
\* as the row is finished, whether the checker is enabled, whether the
\* quota flag was set on entry, and whatever the lookups returned.
C27_HighEntropyRowYieldsOneEvent ==
    \A k \in DOMAIN evals :
       (evals[k].bps > dst_threshold /\ evals[k].entropy > entropy_threshold)
          => /\ evals[k].alerted
             /\ Cardinality({i \in DOMAIN attacks :
                                attacks[i].dst_ip = evals[k].dst_ip}) = 1

\* With the checker enabled, the first row had a lookup without a result
\* and then a reported source, the second row found the flag set; both rows
\* have high entropy and the cycle returned one event for each.
C27_Witness ==
    /\ enabled
    /\ pc = "returned"
    /\ Len(evals) = 2
    /\ \A k \in 1..2 : /\ evals[k].bps > dst_threshold
                       /\ evals[k].entropy > entropy_threshold
    /\ evals[1].checked
    /\ Len(lookups) = 2
    /\ ~lookups[1].hit
    /\ lookups[2].hit
    /\ evals[2].quota
    /\ Len(attacks) = 2
    /\ attacks[1].dst_ip # attacks[2].dst_ip

\* C28: with the checker enabled, as long as no lookup of the cycle has
\* returned is_reported = true the quota flag stays clear, every finished
\* row above dst_threshold took the lookup branch and was looked up at each
\* position of its source list, in order and once per position, a repeated
\* address being looked up at each of its positions; when the cycle
\* returns, the number of lookups is the total length of those lists.
C28_NoHitEveryEntryLookedUp ==
    (/\ enabled
     /\ dst_queried
     /\ \A i \in DOMAIN lookups : ~lookups[i].hit)
       => /\ ~api_quota_reached
          /\ \A k \in DOMAIN evals :
                evals[k].bps > dst_threshold =>
                   /\ evals[k].checked
                   /\ ~evals[k].quota
                   /\ Len(LookupsOf(evals[k].row)) = evals[k].n_src
                   /\ \A j \in 1..evals[k].n_src :
                         LookupsOf(evals[k].row)[j].pos = j
          /\ pc \in {"check_ips", "after_ips"} =>
                /\ Len(results) <= Len(stat[1].src_ips)
                /\ \A j \in DOMAIN results :
                      results[j].ip = stat[1].src_ips[j]
          /\ pc = "returned" =>
                Len(lookups) = Sum([k \in DOMAIN evals |-> evals[k].n_src])

\* Two rows above the threshold with two flow records each, the first row
\* with the same address twice; no lookup was reported (one had no result)
\* and the cycle returned after four lookups.
C28_Witness ==
    /\ enabled
    /\ pc = "returned"
    /\ ~api_quota_reached
    /\ Len(evals) = 2
    /\ evals[1].n_src = 2
    /\ evals[2].n_src = 2
    /\ Len(lookups) = 4
    /\ \A i \in DOMAIN lookups : ~lookups[i].hit
    /\ Len(results) = 2
    /\ results[1].ip = results[2].ip
    /\ results[1].result = None

----------------------------------------------------------------------------
(* Further properties of the notifier (SpecNotify) *)

\* C23 as stated: the value a suppressed send_alert call returns differs
\* from the value a dispatching call returns.
C23_SkipReportedToCaller ==
    (returned.skipped # None /\ returned.dispatched # None)
       => returned.skipped # returned.dispatched

\* C23, amended: send_alert returns Python's None from a suppressed call
\* and from a dispatching call alike, so the caller is told nothing; the
\* suppressed call is the one that leaves no transport call and the memo
\* as it was.
C23_BothCallsReturnNone ==
    /\ returned.skipped \in {None, Some(None)}
    /\ returned.dispatched \in {None, Some(None)}
    /\ (call # None /\ ~call[1].passed)
          => /\ returned.skipped = Some(None)
             /\ posts = <<>>
             /\ last_notifications = call[1].memo

\* A dispatching call and then a suppressed call have both returned.
C23_Witness ==
    /\ npc = "idle"
    /\ returned.skipped = Some(None)
    /\ returned.dispatched = Some(None)
    /\ call # None
    /\ ~call[1].passed

\* C24: two transport calls for one target made by different send_alert
\* calls are at least cooldown apart.  Every transport call of a call comes
\* at least cooldown after the stamp the gate found for the target, and
\* the stamp a finished call leaves is not earlier than any of its
\* transport calls; the stamp the gate finds is the one the latest
\* dispatching call for the target left.
C24_DispatchesCooldownApart ==
    (call # None /\ call[1].passed) =>
       LET target == call[1].target IN
       /\ \A i \in DOMAIN posts :
             /\ posts[i].target = target
             /\ posts[i].at >= call[1].at
             /\ target \in DOMAIN call[1].memo
                   => posts[i].at - call[1].memo[target] >= cooldown
       /\ npc = "idle"
             => \A i \in DOMAIN posts : posts[i].at <= last_notifications[target]
       /\ npc # "idle"
             => LastTime(last_notifications, target) = LastTime(call[1].memo, target)

\* The second dispatch for a target, exactly cooldown after the stamp of
\* the first, whose two transport calls were made at different times.
C24_Witness ==
    /\ npc = "idle"
    /\ call # None
    /\ call[1].passed
    /\ call[1].target \in DOMAIN call[1].memo
    /\ Len(posts) = 2
    /\ posts[1].at - call[1].memo[call[1].target] = cooldown
    /\ posts[2].at > posts[1].at

\* C25: last_notifications is empty when the NotificationManager is
\* created; afterwards no entry disappears, and an entry that changes gets a
\* later time.
C25_EntriesOnlyMoveForward ==
    /\ last_notifications = << >>
    /\ [][\A t \in DOMAIN last_notifications :
             /\ t \in DOMAIN last_notifications'
             /\ last_notifications'[t] >= last_notifications[t]]_vars

\* An entry was overwritten with a later time while the entry of the other
\* target stayed.
C25_Witness ==
    /\ npc = "idle"
    /\ call # None
    /\ call[1].passed
    /\ call[1].target \in DOMAIN call[1].memo
    /\ last_notifications[call[1].target] > call[1].memo[call[1].target]
    /\ Cardinality(DOMAIN last_notifications) = 2

====
